---- MODULE Spec2Model ----
(***************************************************************************)
(* A model of font_sorter.py: the name-table resolver                      *)
(* (get_font_name_property), the name helpers (sanitize_name, the keyword  *)
(* filter of main) and the per-file loop of main over a small file system. *)
(*                                                                         *)
(* Strings are sequences of tokens; a token is an indivisible piece of     *)
(* text ("Roboto", " ", ".ttf", "_1").  Concatenation of strings is \o.    *)
(***************************************************************************)
EXTENDS Integers, Sequences, FiniteSets, TLC

(***************************************************************************)
(* Bounds of the model.                                                    *)
(***************************************************************************)
MaxRecords == 3      \* length of a name table (SpecName)
MaxFiles   == 3      \* files present under the source folder at the start
MaxRuns    == 2      \* how many times the script is run
MaxFaults  == 1      \* I/O failures the environment injects

(***************************************************************************)
(* Python values.                                                          *)
(***************************************************************************)
None == <<"<None>">>                \* Python's None (no string equals it)
Undecodable == <<"<undecodable>">>  \* bytes on which toUnicode() raises
Truthy(s) == s # None /\ s # <<>>   \* bool(s) for s a str or None
Or(a, b) == IF Truthy(a) THEN a ELSE b   \* Python's "a or b"

WINDOWS == 3
MAC     == 1
EN_US   == 1033      \* 0x0409

(***************************************************************************)
(* get_font_name_property.  A record is                                    *)
(* [nameID, platformID, platEncID, langID, text].                          *)
(***************************************************************************)
NoNames == [en_us_name |-> None, windows_name |-> None,
            mac_name |-> None, other_name |-> None]

\* Mutant: the last-resort name is overwritten like the others.
NameStepOtherOverwrites(acc, record, name_id) ==
    IF record.nameID # name_id THEN acc
    ELSE IF record.text = Undecodable THEN acc
    ELSE IF record.platformID = WINDOWS /\ record.langID = EN_US
         THEN [acc EXCEPT !.en_us_name = record.text]
    ELSE IF record.platformID = WINDOWS /\ record.platEncID = 1
         THEN [acc EXCEPT !.windows_name = record.text]
    ELSE IF record.platformID = MAC /\ record.platEncID = 0
         THEN [acc EXCEPT !.mac_name = record.text]
    ELSE [acc EXCEPT !.other_name = record.text]

\* One iteration of the loop over name_records (lines 28-46).
NameStep(acc, record, name_id) ==
    IF record.nameID # name_id THEN acc
    ELSE IF record.text = Undecodable THEN acc          \* except: continue
    ELSE IF record.platformID = WINDOWS /\ record.langID = EN_US
         THEN [acc EXCEPT !.en_us_name = record.text]
    ELSE IF record.platformID = WINDOWS /\ record.platEncID = 1
         THEN [acc EXCEPT !.windows_name = record.text]
    ELSE IF record.platformID = MAC /\ record.platEncID = 0
         THEN [acc EXCEPT !.mac_name = record.text]
    ELSE IF acc.other_name = None
         THEN [acc EXCEPT !.other_name = record.text]
    ELSE acc

RECURSIVE NameLoop(_, _, _)
NameLoop(acc, name_records, name_id) ==
    IF name_records = <<>> THEN acc
    ELSE NameLoop(NameStep(acc, Head(name_records), name_id),
                  Tail(name_records), name_id)

\* Mutant: the generic Windows name is preferred to the en-US one.
get_font_name_property_windows_first(name_records, name_id) ==
    LET acc == NameLoop(NoNames, name_records, name_id)
    IN  Or(acc.windows_name, Or(acc.en_us_name, Or(acc.mac_name, acc.other_name)))

get_font_name_property(name_records, name_id) ==
    LET acc == NameLoop(NoNames, name_records, name_id)
    IN  Or(acc.en_us_name, Or(acc.windows_name, Or(acc.mac_name, acc.other_name)))

(***************************************************************************)
(* Strings as token sequences: the character tables the script relies on.  *)
(***************************************************************************)
Space == " "
FontExts == {".ttf", ".otf", ".ttc", ".woff", ".fon"}      \* line 129
ExtTokens == FontExts \cup {".TTC", ".txt"}

\* str.lower() on one token.
LowerTok(t) ==
    CASE t = "Roboto" -> "roboto"
      [] t = "Bold"   -> "bold"
      [] t = "Regular" -> "regular"
      [] t = "X"      -> "x"
      [] t = ".TTC"   -> ".ttc"
      [] OTHER        -> t
lower(s) == [k \in 1..Len(s) |-> LowerTok(s[k])]

\* str.title() on one token (a token is a whole word or a separator).
TitleTok(t) ==
    CASE t = "roboto" -> "Roboto"
      [] t = "bold"   -> "Bold"
      [] t = "regular" -> "Regular"
      [] t = "x"      -> "X"
      [] OTHER        -> t
title(s) == [k \in 1..Len(s) |-> TitleTok(s[k])]

\* The characters [<>:"/\|?*\x00-\x1f] of line 55, as tokens.
IllegalTokens == {":", "/", "?"}
\* Tokens that are not word characters (\b lies between them and a word).
Separators == {Space, "-", "_", ".", ":", "/", "?"}

RECURSIVE Flatten(_)
Flatten(ss) == IF ss = <<>> THEN <<>> ELSE Head(ss) \o Flatten(Tail(ss))

RECURSIVE lstrip(_, _)
lstrip(s, chars) ==
    IF s # <<>> /\ Head(s) \in chars THEN lstrip(Tail(s), chars) ELSE s
RECURSIVE rstrip(_, _)
rstrip(s, chars) ==
    IF s # <<>> /\ s[Len(s)] \in chars
    THEN rstrip(SubSeq(s, 1, Len(s) - 1), chars) ELSE s
strip(s, chars) == rstrip(lstrip(s, chars), chars)

\* str.strip('. ') also eats the leading dot of a leading extension token.
StripLeadingDot(s) ==
    IF s # <<>> /\ Head(s) \in ExtTokens
    THEN CASE Head(s) = ".ttf" -> <<"ttf">> \o Tail(s)
           [] Head(s) = ".otf" -> <<"otf">> \o Tail(s)
           [] Head(s) = ".ttc" -> <<"ttc">> \o Tail(s)
           [] Head(s) = ".TTC" -> <<"TTC">> \o Tail(s)
           [] Head(s) = ".woff" -> <<"woff">> \o Tail(s)
           [] Head(s) = ".fon" -> <<"fon">> \o Tail(s)
           [] OTHER -> <<"txt">> \o Tail(s)
    ELSE s

\* os.path.splitext on a base name: <<root, ext>>.
splitext(name) ==
    IF Len(name) >= 2 /\ name[Len(name)] \in ExtTokens
       /\ \E k \in 1..(Len(name) - 1) : name[k] # "."
    THEN <<SubSeq(name, 1, Len(name) - 1), <<name[Len(name)]>> >>
    ELSE <<name, <<>> >>

\* sanitize_name (lines 50-62).
sanitize_name(name, is_filename) ==
    LET removed   == SelectSeq(name, LAMBDA t : t \notin IllegalTokens)
        stripped  == strip(removed, {Space})
        sanitized == IF is_filename
                     THEN StripLeadingDot(strip(stripped, {".", Space}))
                     ELSE stripped
    IN  IF sanitized # <<>> /\ sanitized # <<".">> THEN sanitized ELSE None

\* keywords.txt as loaded by load_keywords: one-word keywords.
style_keywords == {"bold"}

\* re.sub(r'[-_.]', ' ', family_name) (line 180), token by token.
CleanTok(t) ==
    CASE t \in {"-", "_", "."} -> <<Space>>
      [] t = "_1" -> <<Space, "1">>
      [] OTHER -> <<t>>
CleanFamily(s) == Flatten([k \in 1..Len(s) |-> CleanTok(s[k])])

\* re.sub(keyword_pattern, '', s, flags=re.IGNORECASE) (line 181): a keyword
\* matches a token only between word boundaries.
StripKeywords(s) ==
    LET Bounded(k) == /\ (k = 1 \/ s[k - 1] \in Separators)
                      /\ (k = Len(s) \/ s[k + 1] \in Separators)
        Keep(k) == ~(LowerTok(s[k]) \in style_keywords /\ Bounded(k))
    IN  Flatten([k \in 1..Len(s) |-> IF Keep(k) THEN <<s[k]>> ELSE <<>>])

\* re.sub(r'\s{2,}', ' ', s) (line 182).
RECURSIVE CollapseSpaces(_)
CollapseSpaces(s) ==
    IF Len(s) < 2 THEN s
    ELSE IF s[1] = Space /\ s[2] = Space THEN CollapseSpaces(Tail(s))
    ELSE <<s[1]>> \o CollapseSpaces(Tail(s))

\* Lines 180-185: the folder name of a regular font.
FolderName(family_name, original_font_name) ==
    LET clean_family_for_folder == CleanFamily(family_name)
        folder_name_base ==
            CollapseSpaces(strip(StripKeywords(clean_family_for_folder), {Space}))
        folder_name == title(Or(folder_name_base, family_name))
    IN  Or(sanitize_name(folder_name, FALSE), splitext(original_font_name)[1])

\* "a in b" for strings: a is a contiguous part of b.
Contains(b, a) ==
    \E k \in 0..(Len(b) - Len(a)) : SubSeq(b, k + 1, k + Len(a)) = a

\* Lines 188-198: the file name when renaming is requested.
RenamedFile(family_name, subfamily_name, original_font_name) ==
    LET new_base_name ==
            IF \/ lower(subfamily_name) \in
                    {<<"regular">>, <<"normal">>, <<"roman">>, <<"plain">>}
               \/ Contains(lower(family_name), lower(subfamily_name))
            THEN family_name
            ELSE family_name \o <<Space>> \o subfamily_name
        ext == splitext(original_font_name)[2]
        sanitized_filename == sanitize_name(new_base_name \o ext, TRUE)
    IN  IF Truthy(sanitized_filename) THEN sanitized_filename
        ELSE original_font_name

(***************************************************************************)
(* The file system under source_folder.  A path is <<folder, name>>:       *)
(* folder is Root for source_folder itself or the name of a child folder,  *)
(* name is the base name.  fs maps each existing file to its content,      *)
(* [origin, font, whole]: the path the bytes had at the start, the font    *)
(* they hold, and whether they are complete.                               *)
(***************************************************************************)
Root == <<>>
ttc_folder     == <<"00 TrueType Collection Fonts">>      \* line 141
woff_folder    == <<"00 woff">>                           \* line 142
fon_folder     == <<"00 fon">>                            \* line 143
skipped_folder == <<"00 Skipped">>                        \* line 144
OwnFolders == {ttc_folder, skipped_folder, woff_folder, fon_folder}  \* line 126

NoPath   == <<>>          \* final_path = ""
NoFolder == <<"">>        \* dest_folder = ""
NoText   == <<"">>        \* log_family = "" / log_subfamily = ""

join(folder, name) == <<folder, name>>      \* os.path.join
dirname(path)  == path[1]
basename(path) == path[2]

\* The fonts a file may hold: what TTFont(font_path) yields for them.
Fonts == {"RobotoBold", "Roboto", "NoName", "Bad"}
Rec(n, p, e, l, t) ==
    [nameID |-> n, platformID |-> p, platEncID |-> e, langID |-> l, text |-> t]
NameTable(font) ==
    CASE font = "RobotoBold" ->
            << Rec(1, MAC, 0, 0, <<"roboto", Space, "bold">>),
               Rec(1, WINDOWS, 1, EN_US, <<"Roboto", Space, "Bold">>),
               Rec(2, WINDOWS, 1, EN_US, <<"Bold">>) >>
      [] font = "Roboto" ->
            << Rec(1, WINDOWS, 1, EN_US, <<"Roboto">>),
               Rec(2, WINDOWS, 1, EN_US, <<"Bold">>) >>
      [] OTHER -> <<>>
\* Lines 175-176 before their fallbacks, for each font.
FontNames[font \in Fonts] ==
    [family |-> get_font_name_property(NameTable(font), 1),
     subfamily |-> get_font_name_property(NameTable(font), 2)]
\* TTFont(font_path, lazy=True) raises on a malformed or truncated file.
TTFontOpens(content) == content.whole /\ content.font # "Bad"

VARIABLES
    fs,             \* the files under source_folder
    dirs,           \* the folders under source_folder that exist
    choice,         \* "c" or "m" (line 96)
    rename_choice,  \* "y" or "n" (line 101)
    pc,             \* "start", "loop" or "done": where main is
    font_files,     \* the list built by the walk (lines 123-130)
    i,              \* index of the next file of font_files
    success_count, failure_count, skipped_count,
    log,            \* the rows written so far, of every run
    run,            \* which run of the script this is
    faults,         \* I/O failures injected so far
    name_records, name_id, result   \* SpecName: one call of the resolver

vars == <<fs, dirs, choice, rename_choice, pc, font_files, i, success_count,
          failure_count, skipped_count, log, run, faults,
          name_records, name_id, result>>
runVars == <<fs, dirs, choice, rename_choice, pc, font_files, i, success_count,
             failure_count, skipped_count, log, run, faults>>
nameVars == <<name_records, name_id, result>>

\* Mutant: a path an earlier file of the run was planned for counts as taken.
existsOrClaimed(path) ==
    \/ path \in DOMAIN fs
    \/ \E k \in 1..Len(log) : log[k].run = run /\ log[k].target = path

exists(path) == path \in DOMAIN fs               \* os.path.exists of a file
isdir(folder) == folder \in dirs

\* Line 129: the files the walk keeps.
IsFontFile(file) ==
    /\ file # <<>>
    /\ LowerTok(file[Len(file)]) \in FontExts
    /\ Head(file) # "._"

\* Lines 123-130: the files of the walk, in one of the orders os.walk may
\* give: source_folder's own files first, then folder by folder.
Discovered ==
    {p \in DOMAIN fs : dirname(p) \notin OwnFolders /\ IsFontFile(basename(p))}
WalkOrders ==
    LET D == Discovered
        n == Cardinality(D)
    IN  {s \in [1..n -> D] :
            /\ \A a, b \in 1..n : a # b => s[a] # s[b]
            /\ \A a, b \in 1..n :
                 (dirname(s[a]) = Root /\ dirname(s[b]) # Root) => a < b
            /\ \A a, b, c \in 1..n :
                 (a < b /\ b < c /\ dirname(s[a]) = dirname(s[c]))
                    => dirname(s[b]) = dirname(s[a])}

\* Mutant: the extension is compared as written.
ExtAsWritten(path) == basename(path)[Len(basename(path))]

\* Lines 164-170: font_path.lower().endswith(...) looks at the lowered
\* extension.
LoweredExt(path) == LowerTok(basename(path)[Len(basename(path))])

\* Lines 147-201: folder and file name of one file.  reads says whether
\* TTFont is opened, ok whether that succeeded.
Plan(font_path, content, rename) ==
    LET original_font_name == basename(font_path)
        ext == LoweredExt(font_path)
        Reserved(folder, family) ==
            [reads |-> FALSE, ok |-> TRUE, dest_folder |-> folder,
             final_font_name |-> original_font_name,
             log_family |-> family, log_subfamily |-> NoText]
        family_name ==
            Or(FontNames[content.font].family, splitext(original_font_name)[1])
        subfamily_name ==
            Or(FontNames[content.font].subfamily, <<"Regular">>)
    IN  IF ext = ".ttc" THEN Reserved(ttc_folder, <<"TTC Collection">>)
        ELSE IF ext = ".woff" THEN Reserved(woff_folder, <<"WOFF Font">>)
        ELSE IF ext = ".fon" THEN Reserved(fon_folder, <<"FON Font">>)
        ELSE IF ~TTFontOpens(content)
        THEN [reads |-> TRUE, ok |-> FALSE, dest_folder |-> NoFolder,
              final_font_name |-> original_font_name,
              log_family |-> NoText, log_subfamily |-> NoText]
        ELSE [reads |-> TRUE, ok |-> TRUE,
              dest_folder |-> FolderName(family_name, original_font_name),
              final_font_name |->
                  IF rename = "y"
                  THEN RenamedFile(family_name, subfamily_name, original_font_name)
                  ELSE original_font_name,
              log_family |-> family_name, log_subfamily |-> subfamily_name]

\* Lines 209-214: the first free name in the skipped folder.
SuffixedName(name, counter) ==
    IF counter = 0 THEN name
    ELSE splitext(name)[1] \o <<"_" \o ToString(counter)>> \o splitext(name)[2]
RECURSIVE FreeCounter(_, _)
FreeCounter(name, counter) ==
    IF exists(join(skipped_folder, SuffixedName(name, counter)))
    THEN FreeCounter(name, counter + 1)
    ELSE counter
\* Mutant: no search for a free name.
SkippedPathNoLoop(original_font_name) ==
    join(skipped_folder, original_font_name)
\* Mutant: the counter is appended even when the plain name is free.
SkippedPathSuffixFirst(original_font_name) ==
    join(skipped_folder,
         SuffixedName(original_font_name, FreeCounter(original_font_name, 1)))

SkippedPath(original_font_name) ==
    join(skipped_folder,
         SuffixedName(original_font_name, FreeCounter(original_font_name, 0)))

(***************************************************************************)
(* The start: up to MaxFiles files under source_folder, the answers to the *)
(* prompts, and main about to walk the tree.                               *)
(***************************************************************************)
FileX   == <<"x", ".ttf">>
FileXC  == <<"x", ".TTC">>
InitFiles ==
    {<<join(Root, FileX), f>> : f \in Fonts}
    \cup {<<join(<<"in">>, FileX), f>> : f \in {"RobotoBold", "Bad"}}
    \cup {<<join(d, FileXC), "Bad">> : d \in {Root, ttc_folder}}
    \cup {<<join(Root, <<"x", ".woff">>), "Bad">>,
          <<join(<<"in">>, <<"x", ".fon">>), "Bad">>,
          <<join(<<"Roboto">>, FileX), "Roboto">>,
          <<join(skipped_folder, FileX), "NoName">>,
          <<join(Root, <<"._", "x", ".ttf">>), "Roboto">>}

Content(path, font) == [origin |-> path, font |-> font, whole |-> TRUE]

\* The sets of at most k of the files of InitFiles, no two at one path.
RECURSIVE FileSets(_)
FileSets(k) ==
    IF k = 0 THEN {{}}
    ELSE LET R == FileSets(k - 1)
             Free(r) == {b \in InitFiles : \A c \in r : c[1] # b[1]}
         IN  R \cup UNION {{r \cup {a} : a \in Free(r)} : r \in R}

InitRun ==
    /\ \E S \in FileSets(MaxFiles) :
         /\ fs = [p \in {a[1] : a \in S} |->
                    Content(p, (CHOOSE a \in S : a[1] = p)[2])]
         /\ dirs = {Root} \cup {dirname(a[1]) : a \in S}
    /\ choice \in {"c", "m"}
    /\ rename_choice \in {"y", "n"}
    /\ pc = "start"
    /\ font_files = <<>>
    /\ i = 0
    /\ success_count = 0 /\ failure_count = 0 /\ skipped_count = 0
    /\ log = <<>>
    /\ run = 1
    /\ faults = 0

Init ==
    /\ InitRun
    /\ name_records = <<>> /\ name_id = 1 /\ result = None

(***************************************************************************)
(* main, one action per way an iteration of the loop of line 146 can end.  *)
(***************************************************************************)
InLoop == pc = "loop" /\ i <= Len(font_files)
font_path == font_files[i]
CurPlan == Plan(font_path, fs[font_path], rename_choice)
ideal_target_path == join(CurPlan.dest_folder, CurPlan.final_font_name)
action_verb == IF choice = "c" THEN "Copied" ELSE "Moved"       \* lines 160-161

\* The row of lines 246-253 (and the line printed for the file).  target
\* is the value final_path had when the transfer was attempted.
Row(display_action, final_path, dest_folder, target) ==
    [run |-> run, display_action |-> display_action, font_path |-> font_path,
     final_path |-> final_path, dest_folder |-> dest_folder,
     log_family |-> CurPlan.log_family, log_subfamily |-> CurPlan.log_subfamily,
     ideal_target_path |-> IF CurPlan.ok THEN ideal_target_path ELSE NoPath,
     target |-> target]

\* Mutant: the exception ends the loop.
FailedAborts(dest_folder, target) ==
    /\ failure_count' = failure_count + 1
    /\ log' = Append(log, Row("Error", NoPath, dest_folder, target))
    /\ i' = Len(font_files) + 1
    /\ UNCHANGED <<choice, rename_choice, pc, font_files, success_count,
                   skipped_count, run>>

\* Lines 239-244.
Failed(dest_folder, target) ==
    /\ failure_count' = failure_count + 1
    /\ log' = Append(log, Row("Error", NoPath, dest_folder, target))
    /\ i' = i + 1
    /\ UNCHANGED <<choice, rename_choice, pc, font_files, success_count,
                   skipped_count, run>>

\* Mutant: a failing transfer has already removed the source.
FailedTransferLosesSource(kind, dst) ==
    fs' = [p \in DOMAIN fs \ {font_path} |-> fs[p]]

\* What a failing shutil.copy2 / shutil.move leaves behind: nothing, or a
\* truncated file at the destination.
FailedTransfer(kind, dst) ==
    IF kind = "partial"
    THEN fs' = (dst :> [fs[font_path] EXCEPT !.whole = FALSE]) @@ fs
    ELSE fs' = fs

move(src, dst) == (dst :> fs[src]) @@ [p \in DOMAIN fs \ {src} |-> fs[p]]
\* Mutant: copying removes the source.
copy2RemovesSource(src, dst) ==
    (dst :> fs[src]) @@ [p \in DOMAIN fs \ {src} |-> fs[p]]
copy2(src, dst) == (dst :> fs[src]) @@ fs

\* Line 174 raises: the font cannot be read.
ReadError ==
    /\ InLoop
    /\ ~CurPlan.ok
    /\ Failed(NoFolder, NoPath)
    /\ UNCHANGED <<fs, dirs, faults>>

\* Lines 203-222: the ideal target exists, the file goes to the skipped folder.
SkipDuplicate ==
    /\ InLoop
    /\ CurPlan.ok
    /\ exists(ideal_target_path)
    /\ LET final_path == SkippedPath(basename(font_path))
       IN  /\ dirs' = dirs \cup {skipped_folder}
           /\ fs' = move(font_path, final_path)
           /\ skipped_count' = skipped_count + 1
           /\ log' = Append(log, Row("Skipped (Duplicate)", final_path,
                                     skipped_folder, final_path))
    /\ i' = i + 1
    /\ UNCHANGED <<choice, rename_choice, pc, font_files, success_count,
                   failure_count, run, faults>>

\* Lines 205-216 raise: os.makedirs or shutil.move fails.
SkipError ==
    /\ InLoop
    /\ CurPlan.ok
    /\ exists(ideal_target_path)
    /\ faults < MaxFaults
    /\ faults' = faults + 1
    /\ \E kind \in {"makedirs", "none", "partial"} :
         LET final_path == SkippedPath(basename(font_path))
         IN  IF kind = "makedirs"
             THEN /\ ~isdir(skipped_folder)
                  /\ UNCHANGED <<fs, dirs>>
                  /\ Failed(CurPlan.dest_folder, NoPath)
             ELSE /\ dirs' = dirs \cup {skipped_folder}
                  /\ FailedTransfer(kind, final_path)
                  /\ Failed(CurPlan.dest_folder, final_path)

\* Lines 224-237: the ideal target is free, the file is copied or moved there.
Transfer ==
    /\ InLoop
    /\ CurPlan.ok
    /\ ~exists(ideal_target_path)
    /\ LET final_path == ideal_target_path
           display_action ==
               IF rename_choice = "y" /\ basename(font_path) # basename(final_path)
               THEN action_verb \o " & Renamed" ELSE action_verb
       IN  /\ dirs' = dirs \cup {CurPlan.dest_folder}
           /\ fs' = IF choice = "c" THEN copy2(font_path, final_path)
                                    ELSE move(font_path, final_path)
           /\ success_count' = success_count + 1
           /\ log' = Append(log, Row(display_action, final_path,
                                     CurPlan.dest_folder, final_path))
    /\ i' = i + 1
    /\ UNCHANGED <<choice, rename_choice, pc, font_files, skipped_count,
                   failure_count, run, faults>>

\* Lines 226-231 raise: os.makedirs, shutil.copy2 or shutil.move fails.
TransferError ==
    /\ InLoop
    /\ CurPlan.ok
    /\ ~exists(ideal_target_path)
    /\ faults < MaxFaults
    /\ faults' = faults + 1
    /\ \E kind \in {"makedirs", "none", "partial"} :
         IF kind = "makedirs"
         THEN /\ ~isdir(CurPlan.dest_folder)
              /\ UNCHANGED <<fs, dirs>>
              /\ Failed(CurPlan.dest_folder, NoPath)
         ELSE /\ dirs' = dirs \cup {CurPlan.dest_folder}
              /\ FailedTransfer(kind, ideal_target_path)
              /\ Failed(CurPlan.dest_folder, ideal_target_path)

\* Lines 123-139: the walk finds font files and the counters start at 0.
Walk ==
    /\ pc = "start"
    /\ Discovered # {}
    /\ font_files' \in WalkOrders
    /\ i' = 1
    /\ success_count' = 0 /\ failure_count' = 0 /\ skipped_count' = 0
    /\ pc' = "loop"
    /\ UNCHANGED <<fs, dirs, choice, rename_choice, log, run, faults>>

\* Lines 132-135: no font file, sys.exit(0).
NoFonts ==
    /\ pc = "start"
    /\ Discovered = {}
    /\ pc' = "exit"
    /\ UNCHANGED <<fs, dirs, choice, rename_choice, font_files, i, success_count,
                   failure_count, skipped_count, log, run, faults>>

\* Lines 255-260: the loop is over, the summary is printed.
Finish ==
    /\ pc = "loop"
    /\ i > Len(font_files)
    /\ pc' = "done"
    /\ UNCHANGED <<fs, dirs, choice, rename_choice, font_files, i, success_count,
                   failure_count, skipped_count, log, run, faults>>

\* The user starts the script again on the same source_folder and gives the
\* same answers to its prompts.
Rerun ==
    /\ pc \in {"done", "exit"}
    /\ run < MaxRuns
    /\ run' = run + 1
    /\ UNCHANGED <<choice, rename_choice>>
    /\ pc' = "start"
    /\ font_files' = <<>>
    /\ i' = 0
    /\ success_count' = 0 /\ failure_count' = 0 /\ skipped_count' = 0
    /\ UNCHANGED <<fs, dirs, log, faults>>

\* One run of the script.
Next ==
    \/ (Walk /\ UNCHANGED nameVars)
    \/ (NoFonts /\ UNCHANGED nameVars)
    \/ (ReadError /\ UNCHANGED nameVars)
    \/ (SkipDuplicate /\ UNCHANGED nameVars)
    \/ (SkipError /\ UNCHANGED nameVars)
    \/ (Transfer /\ UNCHANGED nameVars)
    \/ (TransferError /\ UNCHANGED nameVars)
    \/ (Finish /\ UNCHANGED nameVars)

Spec == Init /\ [][Next]_vars

\* Up to MaxRuns runs of the script in copy mode, one after the other.
InitCopy == Init /\ choice = "c"
NextRerun ==
    \/ Next
    \/ (Rerun /\ UNCHANGED nameVars)

SpecRerun == InitCopy /\ [][NextRerun]_vars

(***************************************************************************)
(* SpecName: one call of get_font_name_property on an arbitrary name table *)
(* of at most MaxRecords records.                                          *)
(***************************************************************************)
Unset == <<"<unset>">>
Platforms ==          \* <<platformID, platEncID, langID>>
    { <<WINDOWS, 1, EN_US>>, <<WINDOWS, 1, 1031>>, <<MAC, 0, 0>>, <<0, 3, 0>> }
Texts == { <<"A">>, <<"B">>, <<>>, Undecodable }
Records == { Rec(n, p[1], p[2], p[3], t) : n \in {1, 2}, p \in Platforms, t \in Texts }

InitName ==
    /\ \E n \in 0..MaxRecords : name_records \in [1..n -> Records]
    /\ name_id \in {1, 2}
    /\ result = Unset
    /\ fs = <<>> /\ dirs = {Root}
    /\ choice = "c" /\ rename_choice = "n"
    /\ pc = "exit"
    /\ font_files = <<>> /\ i = 0
    /\ success_count = 0 /\ failure_count = 0 /\ skipped_count = 0
    /\ log = <<>> /\ run = 1 /\ faults = 0

Resolve ==
    /\ result = Unset
    /\ result' = get_font_name_property(name_records, name_id)
    /\ UNCHANGED <<name_records, name_id>>
    /\ UNCHANGED runVars

NextName == Resolve

SpecName == InitName /\ [][NextName]_vars

(***************************************************************************)
(* Properties.                                                             *)
(***************************************************************************)
Rows(n) == SelectSeq(log, LAMBDA r : r.run = n)
RunRows == Rows(run)                        \* the rows of the current run
Skipped(r)   == r.display_action = "Skipped (Duplicate)"
Errored(r)   == r.display_action = "Error"
Succeeded(r) == ~Skipped(r) /\ ~Errored(r)
Stepped == Len(log') = Len(log) + 1         \* one file was processed
LastRow == log'[Len(log')]
Kept(p) == p \in DOMAIN fs' /\ fs'[p] = fs[p]

\* C1 as stated: when the run ends without a failure, and no file was found
\* at its own ideal target path, then of the files that share an ideal target
\* path exactly one is at that path.
C1_Original ==
    (/\ pc = "done"
     /\ \A k \in 1..Len(RunRows) :
          /\ ~Errored(RunRows[k])
          /\ RunRows[k].font_path # RunRows[k].ideal_target_path) =>
        \A a \in 1..Len(RunRows) :
            Cardinality({b \in 1..Len(RunRows) :
                /\ RunRows[b].ideal_target_path = RunRows[a].ideal_target_path
                /\ RunRows[b].final_path = RunRows[b].ideal_target_path}) = 1

C1_FinalPaths ==
    LET rows == RunRows
        placed == {k \in 1..Len(rows) : rows[k].final_path # NoPath}
    IN  /\ \A a, b \in placed :
              a # b => rows[a].final_path # rows[b].final_path
        /\ \A a \in placed : rows[a].final_path \in DOMAIN fs
        /\ \A a \in placed :
              \/ /\ Succeeded(rows[a])
                 /\ rows[a].final_path = rows[a].ideal_target_path
              \/ /\ Skipped(rows[a])
                 /\ dirname(rows[a].final_path) = skipped_folder
                 /\ rows[a].final_path # rows[a].ideal_target_path
C1_NoOverwriteStep == \A p \in DOMAIN fs : p \in DOMAIN fs' => fs'[p] = fs[p]

\* C1 (amended): no step replaces the content of an existing path; the files
\* of a run that were placed have pairwise distinct final paths, each still
\* on disk, so at most one of the files sharing an ideal target path is at
\* it, and every other placed one is in the skipped folder.
C1_NoOverwrite == []C1_FinalPaths /\ [][C1_NoOverwriteStep]_vars

C1_Witness ==
    /\ pc = "done"
    /\ \E a, b \in 1..Len(RunRows) :
         /\ a # b
         /\ RunRows[a].ideal_target_path = RunRows[b].ideal_target_path
         /\ Succeeded(RunRows[a])
         /\ RunRows[a].final_path = RunRows[a].ideal_target_path
         /\ Skipped(RunRows[b])
         /\ RunRows[b].final_path \in DOMAIN fs

\* C2: every file of the walk gets exactly one row, in order, whatever the
\* rows before it; the three counters count the rows by outcome, and at the
\* end of the run they add up to the number of files found.
C2_Accounted ==
    pc \in {"loop", "done"} =>
        LET rows == RunRows
            Count(P(_)) == Cardinality({k \in 1..Len(rows) : P(rows[k])})
        IN  /\ Len(rows) = i - 1
            /\ \A k \in 1..Len(rows) : rows[k].font_path = font_files[k]
            /\ failure_count = Count(Errored)
            /\ skipped_count = Count(Skipped)
            /\ success_count = Count(Succeeded)
            /\ (pc = "loop" /\ i <= Len(font_files)) => font_files[i] \in DOMAIN fs
            /\ pc = "done" =>
                 /\ Len(rows) = Len(font_files)
                 /\ success_count + skipped_count + failure_count = Len(font_files)

C2_Witness ==
    /\ pc = "done"
    /\ \E a, b \in 1..Len(RunRows) :
         a < b /\ Errored(RunRows[a]) /\ ~Errored(RunRows[b])

\* C3 as stated: after a second run in copy mode in which nothing failed,
\* every file the first run copied has the outcome Skipped (Duplicate).
C3_Idempotent ==
    (/\ pc = "done" /\ run = 2 /\ choice = "c"
     /\ \A k \in 1..Len(log) : ~Errored(log[k])) =>
        \A a \in 1..Len(Rows(1)) :
            Succeeded(Rows(1)[a]) =>
                \E b \in 1..Len(Rows(2)) :
                    /\ Rows(2)[b].font_path = Rows(1)[a].font_path
                    /\ Skipped(Rows(2)[b])

\* C4 as stated: a file whose ideal target is a path finalized for an earlier
\* file of the run, transferred or not, is never transferred to that path.
C4_Original ==
    \A a, b \in 1..Len(RunRows) :
        (/\ a < b
         /\ RunRows[a].target # NoPath
         /\ RunRows[b].ideal_target_path = RunRows[a].target)
            => ~Succeeded(RunRows[b])

C4_Step ==
    Stepped =>
        /\ Skipped(LastRow) => LastRow.ideal_target_path \in DOMAIN fs
        /\ Succeeded(LastRow) => LastRow.ideal_target_path \notin DOMAIN fs
        /\ (Errored(LastRow) /\ LastRow.target # NoPath) =>
             (dirname(LastRow.target) = skipped_folder
                <=> LastRow.ideal_target_path \in DOMAIN fs)
C4_AfterSuccess ==
    \A a, b \in 1..Len(RunRows) :
        (/\ a < b
         /\ RunRows[a].final_path # NoPath
         /\ RunRows[b].ideal_target_path = RunRows[a].final_path)
            => ~Succeeded(RunRows[b])

\* C4 (amended): a file is handled as a collision exactly when its ideal
\* target exists on disk when it is processed; so it is after an earlier
\* file of the run was transferred to that path, and it is not when the
\* earlier transfer failed and left nothing there.
C4_ByDisk == []C4_AfterSuccess /\ [][C4_Step]_vars

C4_Witness ==
    \E a, b \in 1..Len(RunRows) :
        /\ a < b
        /\ Errored(RunRows[a])
        /\ RunRows[a].target # NoPath
        /\ RunRows[b].ideal_target_path = RunRows[a].target
        /\ Succeeded(RunRows[b])
        /\ RunRows[b].final_path = RunRows[a].target

\* The name table seen as the documentation describes it (SpecName).
Matching == {k \in 1..Len(name_records) :
                /\ name_records[k].nameID = name_id
                /\ name_records[k].text # Undecodable}
TierOf(r) ==
    IF r.platformID = 3 /\ r.langID = 1033 THEN 1
    ELSE IF r.platformID = 3 /\ r.platEncID = 1 THEN 2
    ELSE IF r.platformID = 1 /\ r.platEncID = 0 THEN 3
    ELSE 4
InTier(t) == {k \in Matching : TierOf(name_records[k]) = t}
Least(S) == CHOOSE k \in S : \A j \in S : k <= j
Greatest(S) == CHOOSE k \in S : \A j \in S : j <= k
FirstIn(t) == IF InTier(t) = {} THEN None ELSE name_records[Least(InTier(t))].text
LastIn(t) == IF InTier(t) = {} THEN None ELSE name_records[Greatest(InTier(t))].text

\* C5 as stated: when the table holds a decodable Windows en-US record with
\* the requested nameID, and a lower-priority record with a text, the result
\* is the text of such an en-US record.
C5_Original ==
    (/\ result # Unset
     /\ InTier(1) # {}
     /\ \E k \in Matching \ InTier(1) : name_records[k].text # <<>>) =>
        \E k \in InTier(1) : result = name_records[k].text

\* C5 (amended): when the table holds decodable Windows en-US records with the
\* requested nameID and the last of them has a non-empty text, the result is
\* that text, whatever other records there are and wherever they stand.
C5_EnUsWins ==
    (result # Unset /\ InTier(1) # {} /\ LastIn(1) # <<>>) => result = LastIn(1)

C5_Witness ==
    /\ result # Unset
    /\ \E a, b \in Matching :
         /\ a < b
         /\ TierOf(name_records[a]) = 1
         /\ TierOf(name_records[b]) > 1
         /\ name_records[a].text # <<>>
         /\ name_records[b].text # <<>>
         /\ name_records[b].text # name_records[a].text
         /\ result = name_records[a].text

\* C6 as stated, for tables without empty texts: each tier keeps its first
\* decodable matching record, and the result is the candidate of the first
\* tier that has one.
C6_Original ==
    (result # Unset /\ \A k \in Matching : name_records[k].text # <<>>) =>
        result = (IF FirstIn(1) # None THEN FirstIn(1)
                  ELSE IF FirstIn(2) # None THEN FirstIn(2)
                  ELSE IF FirstIn(3) # None THEN FirstIn(3)
                  ELSE FirstIn(4))

\* C6 (amended): the Windows en-US, generic Windows and Mac Roman tiers keep
\* their last decodable matching record, the last-resort tier keeps its first;
\* the result is the candidate of the first of the three upper tiers whose
\* candidate is a non-empty text, and the last-resort candidate otherwise.
C6_Tiers ==
    result # Unset =>
        result = (IF Truthy(LastIn(1)) THEN LastIn(1)
                  ELSE IF Truthy(LastIn(2)) THEN LastIn(2)
                  ELSE IF Truthy(LastIn(3)) THEN LastIn(3)
                  ELSE FirstIn(4))

C6_Witness ==
    /\ result # Unset
    /\ InTier(1) = {}
    /\ Cardinality(InTier(2)) >= 2
    /\ Truthy(FirstIn(2)) /\ Truthy(LastIn(2)) /\ FirstIn(2) # LastIn(2)
    /\ result = LastIn(2)

C7_Step ==
    \A p \in DOMAIN fs :
        \/ Kept(p)
        \/ /\ Stepped
           /\ p = LastRow.font_path
           /\ ~Errored(LastRow)
           /\ LastRow.final_path \notin DOMAIN fs
           /\ LastRow.final_path \in DOMAIN fs'
           /\ fs'[LastRow.final_path] = fs[p]

\* C7: a step leaves every existing file where it is, with its content,
\* except the file being processed, which leaves its path only when its row
\* is not an Error and its content is then at the row's final path, a path
\* that was free; so after an Error row nothing has changed place.
C7_NeverDeletes == [][C7_Step]_vars

C7_Witness ==
    /\ choice = "m"
    /\ \E a, b \in 1..Len(RunRows) :
         /\ RunRows[a].display_action = "Moved"
         /\ RunRows[a].font_path \notin DOMAIN fs
         /\ fs[RunRows[a].final_path].origin = RunRows[a].font_path
         /\ Errored(RunRows[b])
         /\ RunRows[b].target # NoPath
         /\ RunRows[b].font_path \in DOMAIN fs

C8_Step ==
    (Stepped /\ LastRow.ideal_target_path \in DOMAIN fs) =>
        LET name == basename(LastRow.font_path)
            InSkipped(k) == join(skipped_folder, SuffixedName(name, k))
        IN  /\ success_count' = success_count
            /\ \A p \in DOMAIN fs' \ DOMAIN fs : dirname(p) = skipped_folder
            /\ ~Errored(LastRow) =>
                 /\ Skipped(LastRow)
                 /\ skipped_count' = skipped_count + 1
                 /\ \E k \in 0..Cardinality(DOMAIN fs) :
                      /\ LastRow.final_path = InSkipped(k)
                      /\ InSkipped(k) \notin DOMAIN fs
                      /\ \A j \in 0..(k - 1) : InSkipped(j) \in DOMAIN fs
                 /\ fs'[LastRow.final_path] = fs[LastRow.font_path]
                 /\ LastRow.font_path \notin DOMAIN fs'

\* C8: a file whose ideal target exists is never counted as succeeded and
\* nothing appears outside the skipped folder; unless its move fails it is
\* counted as skipped and moved to the skipped folder under its original name
\* or, when that is taken, under stem_k.ext for the least free k >= 1.
C8_Quarantine == [][C8_Step]_vars

C8_Witness ==
    /\ rename_choice = "y"
    /\ \E a \in 1..Len(RunRows) :
         /\ Skipped(RunRows[a])
         /\ RunRows[a].final_path = join(skipped_folder, <<"x", "_1", ".ttf">>)
         /\ RunRows[a].final_path \in DOMAIN fs
         /\ basename(RunRows[a].ideal_target_path) # basename(RunRows[a].font_path)

\* C9: every row of a .ttc, .woff or .fon file (in any letter case) has the
\* fixed folder of its kind and the unchanged file name as ideal target, and
\* the fixed family text and no subfamily: no name was read from the file.
C9_Reserved ==
    \A k \in 1..Len(log) :
        LET r == log[k]
            name == basename(r.font_path)
            ext == LowerTok(name[Len(name)])
        IN  /\ ext = ".ttc" =>
                 /\ r.ideal_target_path = join(ttc_folder, name)
                 /\ r.log_family = <<"TTC Collection">>
                 /\ r.log_subfamily = NoText
            /\ ext = ".woff" =>
                 /\ r.ideal_target_path = join(woff_folder, name)
                 /\ r.log_family = <<"WOFF Font">>
                 /\ r.log_subfamily = NoText
            /\ ext = ".fon" =>
                 /\ r.ideal_target_path = join(fon_folder, name)
                 /\ r.log_family = <<"FON Font">>
                 /\ r.log_subfamily = NoText

C9_Witness ==
    /\ rename_choice = "y"
    /\ \E k \in 1..Len(log) :
         /\ log[k].font_path = join(Root, FileXC)
         /\ Succeeded(log[k])
         /\ log[k].final_path = join(ttc_folder, FileXC)
         /\ log[k].final_path \in DOMAIN fs
         /\ fs[log[k].final_path].font = "Bad"

\* C10 as stated: after a run in copy mode every file of the walk is still at
\* its original path.
C10_Original ==
    (choice = "c" /\ pc = "done") =>
        \A k \in 1..Len(font_files) : font_files[k] \in DOMAIN fs

C10_Step ==
    choice = "c" =>
        /\ \A p \in DOMAIN fs :
             Kept(p) \/ (Stepped /\ Skipped(LastRow) /\ p = LastRow.font_path)
        /\ (Stepped /\ Skipped(LastRow)) => LastRow.font_path \notin DOMAIN fs'
C10_Rows ==
    choice = "c" =>
        \A k \in 1..Len(RunRows) :
            ~Skipped(RunRows[k]) => RunRows[k].font_path \in DOMAIN fs

\* C10 (amended): in copy mode a file leaves its original path only when it
\* is skipped as a duplicate, and then it does: that file is moved to the
\* skipped folder; a file whose row is Copied or Error stays where it was.
C10_CopyKeeps == []C10_Rows /\ [][C10_Step]_vars

C10_Witness ==
    /\ choice = "c"
    /\ pc = "done"
    /\ \E a, b \in 1..Len(RunRows) :
         /\ RunRows[a].display_action = "Copied"
         /\ RunRows[a].font_path \in DOMAIN fs
         /\ RunRows[a].final_path \in DOMAIN fs
         /\ Skipped(RunRows[b])
         /\ RunRows[b].font_path \notin DOMAIN fs

====
